---- MODULE Spec2Model ----
(***************************************************************************)
(* Model of the instrumented action engine of WebApplication               *)
(* (packages/types/src/config.ts): decorateMethods.promiseGetter, the      *)
(* ifError chain method and the failure hook.                              *)
(*                                                                         *)
(* One session (one WebApplication instance).  Every action of the model   *)
(* is one run-to-completion piece of JavaScript: the code executed from    *)
(* one external event (a call of the test code, the release of a           *)
(* breakpoint wait, the settlement of the origin's promise, the return of  *)
(* the failure hook) up to the next point where the code waits for an      *)
(* external event, with the promise reactions that follow it in the        *)
(* microtask queue before any of those events can arrive.                  *)
(***************************************************************************)
EXTENDS Integers, Sequences, FiniteSets, TLC

\* ------------------------------------------------------------------ bounds
MaxInv == 2

\* calls of ifError the test code makes in one run
MaxIfError == 1

\* calls of ifError the test code makes on one pending result (SpecOne)
MaxIfErrorOnOne == 2

\* tabs the browser opens in one run (SpecTabs)
MaxTabs == 3

\* getMainTabId / switchTab / window calls in flight at once (SpecTabs)
MaxPending == 2

\* longest timeout a deadline wait is called with, in ms (SpecPoll)
MaxTimeout == 200

\* longest time a driver call takes, in ms (SpecPoll)
MaxDelay == 150

\* evaluations one deadline wait is followed for (SpecPoll)
MaxEvals == 5

\* protected TICK_TIMEOUT: number = 100
TICK_TIMEOUT == 100

Inv == 1..MaxInv

\* argument lists of a call; LogFn throws while rendering BadArg
Args == {"a", "bad"}
BadArg == "bad"

\* values an origin returns or resolves with
Values == {"v1"}

\* messages of the errors an origin throws or rejects with
OriginMessages == {"boom"}

\* value objects: the payload v the origin of invocation i produced
NoValue           == [from |-> 0, v |-> "undefined"]
OriginValue(i, v) == [from |-> i, v |-> v]

\* error objects: the one the origin of invocation i raised, or a bare reason
NoError        == [kind |-> "none",   inv |-> 0, reason |-> ""]
OriginError(i) == [kind |-> "origin", inv |-> i, reason |-> ""]
ReasonError(s) == [kind |-> "reason", inv |-> 0, reason |-> s]

\* the reason ifError(null / undefined) rejects with (config.ts:371)
EmptyInterceptorError == "Error interceptor can not be empty"

\* what the caller may hand to ifError
IfErrorInputs ==
    { [type |-> "null",      s |-> ""],
      [type |-> "undefined", s |-> ""],
      [type |-> "string",    s |-> "nope"],
      [type |-> "function",  s |-> "F"] }

NoIfError == [type |-> "none", s |-> ""]

VARIABLES
    isLogOpened,          \* the session's reentrancy guard
    screenshotsEnabled,   \* config.screenshotsEnabled
    startSteps,           \* logger.startStep calls made for each invocation
    endSteps,             \* logger.endStep calls made for each invocation
    nIssued,              \* number of invocations issued so far
    pc,                   \* position of each invocation's executor
    top,                  \* the invocation took the top-level branch
    args,                 \* the call arguments
    errorLogInterceptor,  \* the interceptor slot of each invocation
    promise,              \* the pending result returned to the caller
    result,               \* what the origin of the invocation produced
    errMessage,           \* message field of the error object of the origin
    catchHandler,         \* position of the result.catch handler
    shotAttempts,         \* makeScreenshot calls made by the failure hook
    nIfError,             \* number of ifError calls made so far
    ifErrorReturn,        \* the last ifError call: its argument and what it returned
    ifErrorBefore,        \* last interceptor handed over before the origin settled
    originMessage,        \* message the origin's error was raised with
    interceptorCalls,     \* calls of the interceptor made for each invocation
    mainTabID,            \* the tracked main tab, NullTab when not initialized
    isSessionStopped,     \* the session was ended
    tabIds,               \* driver: ids of the open tabs, in the driver's order
    currentTab,           \* driver: the active tab, NullTab when there is none
    nextTabId,            \* driver: id the next opened tab gets
    initQueries,          \* current-tab queries of initMainTabId answered with an id since the last reset
    pendingInit,          \* calls awaiting the reply to initMainTabId's query, oldest first
    tabReturn,            \* the last tab operation that completed (see Returned)
    now,                  \* Date.now()
    poll,                 \* the deadline wait in progress (see NoPoll)
    lastOp,               \* the wait or action on an element that ended last (see Completed)
    page,                 \* openPage: its position, the page operation, the timer, the result
    valueWrite            \* setValue with a value: its position, the write, the screenshot, the result

engineVars == << isLogOpened, screenshotsEnabled, startSteps, endSteps, nIssued, pc, top, args,
           errorLogInterceptor, promise, result, errMessage, catchHandler,
           shotAttempts, nIfError, ifErrorReturn, ifErrorBefore, originMessage,
           interceptorCalls >>

tabVars == << mainTabID, isSessionStopped, tabIds, currentTab, nextTabId,
              initQueries, pendingInit, tabReturn >>

waitVars == << now, poll, lastOp, page, valueWrite >>

vars == << engineVars, tabVars, waitVars >>

\* ------------------------------------------------------- pure definitions
\* mainTabID: number | null
NullTab == 0

NoReturn == [op |-> "none", ok |-> FALSE, id |-> NullTab, was |-> NullTab]

NoPollResult == [kind |-> "none", value |-> "", message |-> << >>]

\* what the driver and the file writer answer to an operation on an element
DefaultIn ==
    [highlight |-> "off", exists |-> "ok", skipMove |-> FALSE, scroll |-> "ok",
     move |-> "ok", shot |-> "ok", act |-> "ok", vis |-> "ok"]

NoOp ==
    [op |-> "none", in |-> DefaultIn, timeout |-> 0, spent |-> 0, calls |-> << >>,
     result |-> NoPollResult]

NoPage == [pc |-> "idle", operation |-> "none", timer |-> "none", result |-> "none"]

\* a setValue before its call
NoValueWrite ==
    [pc |-> "idle", emulateViaJS |-> FALSE,
     write |-> "none",        \* client.setValue or simulateJSFieldChange: none, pending, done, failed
     shot |-> "none",         \* the driver's screenshot: none, pending, done, failed
     shotAfterWrite |-> TRUE, \* the write had completed when the screenshot was answered
     result |-> "none"]

\* a deadline wait before its call, with the records kept of it
NoPoll ==
    [op |-> "none", pc |-> "idle", timeout |-> 0, expires |-> 0,
     evals |-> 0,         \* evaluations of the predicate begun
     began |-> 0,         \* time of the loop test that began the latest one
     ended |-> 0,         \* time the latest one ended
     paced |-> TRUE,      \* every evaluation but the first began a tick or more after the one before ended
     seen |-> FALSE,      \* an evaluation found the awaited state
     rootFailed |-> FALSE,
     testedAt |-> 0,      \* time of the latest loop test
     failed |-> FALSE,    \* the driver failed the latest evaluation with an error
     result |-> NoPollResult]


\* the rendered display message (stepLogMessagesDecorator entry)
LogFn(a) == "step " \o a

\* rendering throws (e.g. JSON.stringify / formatXpath on a bad argument)
LogFnThrows(a) == a = BadArg

\* default error-message function: (err) => err.message
ErrorFn(msg, a) == msg

\* a caller-supplied interceptor function of (err, ...args)
UserFn(f, msg, a) == f \o "(" \o msg \o "," \o a \o ")"

DefaultInterceptor == [kind |-> "errorFn", s |-> ""]

\* the interceptor slot is ignored: always the default error-message function
ApplyErrorFnOnly(ic, msg, a) == ErrorFn(msg, a)

\* the call errorLogInterceptor(err, ...args)
ApplyInterceptor(ic, msg, a) ==
    CASE ic.kind = "errorFn"  -> ErrorFn(msg, a)
      [] ic.kind = "literal"  -> ic.s
      [] ic.kind = "function" -> UserFn(ic.s, msg, a)

\* the slot takes the first interceptor only
InterceptorSetOnce(ic, x) ==
    IF ic.kind # "errorFn" THEN ic
    ELSE CASE x.type = "function"               -> [kind |-> "function", s |-> x.s]
           [] x.type \in {"null", "undefined"}  -> ic
           [] OTHER                             -> [kind |-> "literal", s |-> x.s]

\* the slot after ifError(x): a function is stored, a literal is wrapped
InterceptorAfter(ic, x) ==
    CASE x.type = "function"               -> [kind |-> "function", s |-> x.s]
      [] x.type \in {"null", "undefined"}  -> ic
      [] OTHER                             -> [kind |-> "literal", s |-> x.s]

\* one slot shared by every invocation
SetInterceptorShared(slots, i, x) == [j \in DOMAIN slots |-> InterceptorAfter(slots[j], x)]

\* errorLogInterceptor is a variable of the promiseGetter call: ifError on
\* the pending result of invocation i writes the slot of invocation i
SetInterceptor(slots, i, x) == [slots EXCEPT ![i] = InterceptorAfter(@, x)]

\* ifError hands back the pending result whatever it is given
IfErrorAlwaysChains(x) ==
    [arg |-> IF x.type \in {"null", "undefined"} THEN "empty" ELSE x.type,
     returned |-> "samePromise", reason |-> ""]

\* what ifError(x) returns: the pending result itself, or a fresh promise
\* rejected with the reason EmptyInterceptorError; null and undefined take
\* the same branch and are recorded as the one argument "empty"
IfErrorResult(x) ==
    IF x.type \in {"null", "undefined"}
    THEN [arg |-> "empty", returned |-> "newRejected", reason |-> EmptyInterceptorError]
    ELSE [arg |-> x.type, returned |-> "samePromise", reason |-> ""]

NotCalled == [arg |-> "none", returned |-> "nothing", reason |-> ""]

PendingPromise == [state |-> "pending", value |-> NoValue, error |-> NoError]

Settled(p) == p.state \in {"fulfilled", "rejected"}

\* resolve() called without the value
ResolveUndefined(p, v) ==
    IF p.state = "pending"
    THEN [state |-> "fulfilled", value |-> NoValue, error |-> NoError]
    ELSE p

\* resolve(v) with a plain value: settles a promise that is not resolved yet
Resolve(p, v) ==
    IF p.state = "pending"
    THEN [state |-> "fulfilled", value |-> v, error |-> NoError]
    ELSE p

\* reject(err)
Reject(p, e) ==
    IF p.state = "pending"
    THEN [state |-> "rejected", value |-> NoValue, error |-> e]
    ELSE p

\* resolve(result) settles at once with the promise object as its value
ResolveWithEager(p, r) ==
    IF p.state # "pending" THEN p
    ELSE [state |-> "fulfilled", value |-> r.value, error |-> NoError]

\* resolve(result) where result is the origin's promise r: the promise is
\* locked to r and follows it
ResolveWith(p, r) ==
    IF p.state # "pending" THEN p
    ELSE CASE r.state = "pending"   -> [p EXCEPT !.state = "locked"]
           [] r.state = "fulfilled" -> [state |-> "fulfilled", value |-> r.value, error |-> NoError]
           [] r.state = "rejected"  -> [state |-> "rejected", value |-> NoValue, error |-> r.error]

\* a promise locked to the origin's promise follows its settlement
Follow(p, r) ==
    IF p.state # "locked" THEN p
    ELSE CASE r.state = "fulfilled" -> [state |-> "fulfilled", value |-> r.value, error |-> NoError]
           [] r.state = "rejected"  -> [state |-> "rejected", value |-> NoValue, error |-> r.error]
           [] OTHER                 -> p

\* endStep is not logged
EndStepSkipped(n, i) == n

\* the error is passed on as it was raised
InterceptorCallSkipped(n, i) == n

\* err.message = errorLogInterceptor(err, ...args): one call of the
\* interceptor of invocation i
InterceptorCall(n, i) == [n EXCEPT ![i] = @ + 1]

\* logger.startStep(message) / logger.endStep(message) of invocation i
StartStep(n, i) == [n EXCEPT ![i] = @ + 1]
EndStep(n, i)   == [n EXCEPT ![i] = @ + 1]

NoResult == [state |-> "notCalled", value |-> NoValue, error |-> NoError]

\* --------------------------------------------------------------- Init
Init ==
    /\ isLogOpened = FALSE
    /\ screenshotsEnabled \in BOOLEAN
    /\ startSteps = [i \in Inv |-> 0]
    /\ endSteps = [i \in Inv |-> 0]
    /\ nIssued = 0
    /\ pc = [i \in Inv |-> "idle"]
    /\ top = [i \in Inv |-> FALSE]
    /\ args = [i \in Inv |-> "a"]
    /\ errorLogInterceptor = [i \in Inv |-> DefaultInterceptor]
    /\ promise = [i \in Inv |-> PendingPromise]
    /\ result = [i \in Inv |-> NoResult]
    /\ errMessage = [i \in Inv |-> ""]
    /\ catchHandler = [i \in Inv |-> "idle"]
    /\ shotAttempts = [i \in Inv |-> 0]
    /\ nIfError = 0
    /\ ifErrorReturn = [i \in Inv |-> NotCalled]
    /\ ifErrorBefore = [i \in Inv |-> NoIfError]
    /\ originMessage = [i \in Inv |-> ""]
    /\ interceptorCalls = [i \in Inv |-> 0]
    /\ mainTabID = NullTab
    /\ isSessionStopped = FALSE
    /\ tabIds = << 1 >>
    /\ currentTab = 1
    /\ nextTabId = 2
    /\ initQueries = 0
    /\ pendingInit = << >>
    /\ tabReturn = NoReturn
    /\ now = 0
    /\ poll = NoPoll
    /\ lastOp = NoOp
    /\ page = NoPage
    /\ valueWrite = NoValueWrite


\* ------------------------------------------------------------- actions

\* what an origin does when it is called: returns a plain value, throws,
\* or returns a promise that settles later
OriginOutcomes ==
    { [how |-> "returned", value |-> v, msg |-> ""] : v \in Values } \cup
    { [how |-> "threw", value |-> "", msg |-> m] : m \in OriginMessages } \cup
    { [how |-> "pending", value |-> "", msg |-> ""] }

\* invocations are numbered in the order of their calls
IsNextCall(i) == i = nIssued + 1

\* the guard is never consulted
NeverNested(guard) == FALSE

\* the guard test of the executor: the nested branch is taken iff a step is open
IsNestedCall(guard) == guard

\* the caller invokes a decorated method with arguments a and the display
\* message fails to render: the async executor throws before it resolves or
\* rejects anything
CallRenderThrows(i, a) ==
    /\ IsNextCall(i)
    /\ LogFnThrows(a)
    /\ pc' = [pc EXCEPT ![i] = "dead"]
    /\ args' = [args EXCEPT ![i] = a]
    /\ nIssued' = i
    /\ UNCHANGED << tabVars, waitVars, interceptorCalls >>
    /\ UNCHANGED << isLogOpened, screenshotsEnabled, startSteps, endSteps, top,
                    errorLogInterceptor, promise, result, errMessage,
                    catchHandler, shotAttempts, nIfError, ifErrorReturn, ifErrorBefore,
                    originMessage >>

\* nested branch: a step is open; the origin is called at once, no step is
\* logged and the guard is not touched
CallNested(i, a, o) ==
    /\ IsNextCall(i)
    /\ ~LogFnThrows(a)
    /\ IsNestedCall(isLogOpened)
    /\ args' = [args EXCEPT ![i] = a]
    /\ nIssued' = i
    /\ top' = [top EXCEPT ![i] = FALSE]
    /\ CASE o.how = "returned" ->
              /\ result' = [result EXCEPT ![i] = [state |-> "returned", value |-> OriginValue(i, o.value), error |-> NoError]]
              /\ promise' = [promise EXCEPT ![i] = Resolve(@, OriginValue(i, o.value))]
              /\ pc' = [pc EXCEPT ![i] = "done"]
              /\ UNCHANGED << errMessage, originMessage, interceptorCalls >>
         [] o.how = "threw" ->
              /\ result' = [result EXCEPT ![i] = [state |-> "threw", value |-> NoValue, error |-> OriginError(i)]]
              /\ originMessage' = [originMessage EXCEPT ![i] = o.msg]
              /\ errMessage' = [errMessage EXCEPT ![i] =
                                   ApplyInterceptor(errorLogInterceptor[i], o.msg, a)]
              /\ interceptorCalls' = InterceptorCall(interceptorCalls, i)
              /\ promise' = [promise EXCEPT ![i] = Reject(@, OriginError(i))]
              /\ pc' = [pc EXCEPT ![i] = "done"]
         [] o.how = "pending" ->
              /\ result' = [result EXCEPT ![i] = [state |-> "pending", value |-> NoValue, error |-> NoError]]
              /\ pc' = [pc EXCEPT ![i] = "nestedAwait"]
              /\ UNCHANGED << promise, errMessage, originMessage, interceptorCalls >>
    /\ UNCHANGED << tabVars, waitVars >>
    /\ UNCHANGED << isLogOpened, screenshotsEnabled, startSteps, endSteps, errorLogInterceptor,
                    catchHandler, shotAttempts, nIfError, ifErrorReturn, ifErrorBefore >>

\* top-level branch: the guard is free; the executor suspends on the
\* before-instruction breakpoint
CallTop(i, a) ==
    /\ IsNextCall(i)
    /\ ~LogFnThrows(a)
    /\ ~IsNestedCall(isLogOpened)
    /\ args' = [args EXCEPT ![i] = a]
    /\ nIssued' = i
    /\ top' = [top EXCEPT ![i] = TRUE]
    /\ pc' = [pc EXCEPT ![i] = "waitBefore"]
    /\ UNCHANGED << tabVars, waitVars, interceptorCalls >>
    /\ UNCHANGED << isLogOpened, screenshotsEnabled, startSteps, endSteps, errorLogInterceptor,
                    promise, result, errMessage, catchHandler, shotAttempts,
                    nIfError, ifErrorReturn, ifErrorBefore, originMessage >>

\* the before-instruction breakpoint wait is released: open the step, mark
\* the guard busy, call the origin and handle what it does synchronously
WaitBeforeReleased(i, o) ==
    /\ pc[i] = "waitBefore"
    /\ pc' = [pc EXCEPT ![i] = "waitAfter"]
    /\ CASE o.how = "returned" ->
              /\ startSteps' = StartStep(startSteps, i)
              /\ endSteps' = EndStep(endSteps, i)
              /\ isLogOpened' = FALSE
              /\ result' = [result EXCEPT ![i] = [state |-> "returned", value |-> OriginValue(i, o.value), error |-> NoError]]
              /\ UNCHANGED << promise, errMessage, originMessage, interceptorCalls >>
         [] o.how = "threw" ->
              /\ startSteps' = StartStep(startSteps, i)
              /\ endSteps' = EndStep(endSteps, i)
              /\ isLogOpened' = FALSE
              /\ result' = [result EXCEPT ![i] = [state |-> "threw", value |-> NoValue, error |-> OriginError(i)]]
              /\ originMessage' = [originMessage EXCEPT ![i] = o.msg]
              /\ errMessage' = [errMessage EXCEPT ![i] =
                                   ApplyInterceptor(errorLogInterceptor[i], o.msg, args[i])]
              /\ interceptorCalls' = InterceptorCall(interceptorCalls, i)
              /\ promise' = [promise EXCEPT ![i] = Reject(@, OriginError(i))]
         [] o.how = "pending" ->
              /\ startSteps' = StartStep(startSteps, i)
              /\ endSteps' = endSteps
              /\ isLogOpened' = TRUE
              /\ result' = [result EXCEPT ![i] = [state |-> "pending", value |-> NoValue, error |-> NoError]]
              /\ UNCHANGED << promise, errMessage, originMessage, interceptorCalls >>
    /\ UNCHANGED << tabVars, waitVars >>
    /\ UNCHANGED << screenshotsEnabled, nIssued, top, args, errorLogInterceptor,
                    catchHandler, shotAttempts, nIfError, ifErrorReturn, ifErrorBefore >>

\* the origin's promise is fulfilled with v
OriginFulfilled(i, v) ==
    /\ result[i].state = "pending"
    /\ result' = [result EXCEPT ![i] = [state |-> "fulfilled", value |-> OriginValue(i, v), error |-> NoError]]
    /\ IF top[i]
       THEN \* result.catch passes the value on, .then closes the step
            /\ endSteps' = EndStep(endSteps, i)
            /\ startSteps' = startSteps
            /\ isLogOpened' = FALSE
            /\ promise' = [promise EXCEPT ![i] = Resolve(Follow(@, result'[i]), OriginValue(i, v))]
            /\ pc' = pc
       ELSE \* resolve(await originMethod.apply(self, args))
            /\ promise' = [promise EXCEPT ![i] = Resolve(@, OriginValue(i, v))]
            /\ pc' = [pc EXCEPT ![i] = "done"]
            /\ UNCHANGED << startSteps, endSteps, isLogOpened >>
    /\ UNCHANGED << tabVars, waitVars, interceptorCalls >>
    /\ UNCHANGED << screenshotsEnabled, nIssued, top, args, errorLogInterceptor,
                    errMessage, catchHandler, shotAttempts, nIfError, ifErrorReturn,
                    ifErrorBefore, originMessage >>

\* the origin's promise is rejected with an error whose message is m
OriginRejected(i, m) ==
    /\ result[i].state = "pending"
    /\ result' = [result EXCEPT ![i] = [state |-> "rejected", value |-> NoValue, error |-> OriginError(i)]]
    /\ originMessage' = [originMessage EXCEPT ![i] = m]
    /\ errMessage' = [errMessage EXCEPT ![i] =
                         ApplyInterceptor(errorLogInterceptor[i], m, args[i])]
    /\ interceptorCalls' = InterceptorCall(interceptorCalls, i)
    /\ IF top[i]
       THEN \* the catch handler rewrites the message and awaits the failure
            \* hook; a promise already locked to the origin's follows it
            /\ catchHandler' = [catchHandler EXCEPT ![i] = "awaitErrorHandler"]
            /\ shotAttempts' = [shotAttempts EXCEPT ![i] = @ + 1]
            /\ promise' = [promise EXCEPT ![i] = Follow(@, result'[i])]
            /\ pc' = pc
       ELSE \* catch (err) { err.message = ...; reject(err) }
            /\ promise' = [promise EXCEPT ![i] = Reject(@, OriginError(i))]
            /\ pc' = [pc EXCEPT ![i] = "done"]
            /\ UNCHANGED << catchHandler, shotAttempts >>
    /\ UNCHANGED << tabVars, waitVars >>
    /\ UNCHANGED << isLogOpened, screenshotsEnabled, startSteps, endSteps, nIssued, top, args,
                    errorLogInterceptor, nIfError, ifErrorReturn, ifErrorBefore >>

\* makeScreenshot can fail only when it calls the driver and the file writer
ScreenshotMayFail == screenshotsEnabled

\* asyncErrorHandler (makeScreenshot) returns to the catch handler: normally
\* (ok), or by throwing
ErrorHandlerReturned(i, ok) ==
    /\ catchHandler[i] = "awaitErrorHandler"
    /\ ok \/ ScreenshotMayFail
    /\ IF ok
       THEN \* the catch handler closes the step and rejects; it returns
            \* normally, so the chained .then handler runs as well
            /\ endSteps' = EndStep(EndStep(endSteps, i), i)
            /\ startSteps' = startSteps
            /\ isLogOpened' = FALSE
            /\ promise' = [promise EXCEPT ![i] = Reject(@, OriginError(i))]
            /\ catchHandler' = [catchHandler EXCEPT ![i] = "done"]
       ELSE \* the await throws: the rest of the catch handler is skipped
            /\ catchHandler' = [catchHandler EXCEPT ![i] = "failed"]
            /\ UNCHANGED << startSteps, endSteps, isLogOpened, promise >>
    /\ UNCHANGED << tabVars, waitVars, interceptorCalls >>
    /\ UNCHANGED << screenshotsEnabled, nIssued, pc, top, args,
                    errorLogInterceptor, result, errMessage, shotAttempts,
                    nIfError, ifErrorReturn, ifErrorBefore, originMessage >>

\* the after-instruction breakpoint wait is released: resolve(result)
WaitAfterReleased(i) ==
    /\ pc[i] = "waitAfter"
    /\ pc' = [pc EXCEPT ![i] = "done"]
    /\ promise' = [promise EXCEPT ![i] =
                      IF result[i].state \in {"returned", "threw"}
                      THEN Resolve(@, result[i].value)
                      ELSE ResolveWith(@, result[i])]
    /\ UNCHANGED << tabVars, waitVars, interceptorCalls >>
    /\ UNCHANGED << isLogOpened, screenshotsEnabled, startSteps, endSteps, nIssued, top, args,
                    errorLogInterceptor, result, errMessage, catchHandler,
                    shotAttempts, nIfError, ifErrorReturn, ifErrorBefore, originMessage >>

OriginSettled(r) == r.state \in {"returned", "threw", "fulfilled", "rejected"}

\* the caller calls ifError(x) on the pending result of invocation i
IfErrorCall(i, x) ==
    /\ i <= nIssued
    /\ nIfError' = nIfError + 1
    /\ errorLogInterceptor' = SetInterceptor(errorLogInterceptor, i, x)
    /\ ifErrorReturn' = [ifErrorReturn EXCEPT ![i] = IfErrorResult(x)]
    /\ ifErrorBefore' = [ifErrorBefore EXCEPT ![i] =
                            IF x.type \in {"string", "function"} /\ ~OriginSettled(result[i])
                            THEN x ELSE @]
    /\ UNCHANGED << tabVars, waitVars, interceptorCalls >>
    /\ UNCHANGED << isLogOpened, screenshotsEnabled, startSteps, endSteps, nIssued, pc, top, args,
                    promise, result, errMessage, catchHandler, shotAttempts,
                    originMessage >>

\* ifError within the bound of the run
IfError(i, x) ==
    /\ nIfError < MaxIfError
    /\ IfErrorCall(i, x)

Next ==
    \/ \E i \in Inv, a \in Args : CallRenderThrows(i, a)
    \/ \E i \in Inv, a \in Args, o \in OriginOutcomes : CallNested(i, a, o)
    \/ \E i \in Inv, a \in Args : CallTop(i, a)
    \/ \E i \in Inv, o \in OriginOutcomes : WaitBeforeReleased(i, o)
    \/ \E i \in Inv, v \in Values : OriginFulfilled(i, v)
    \/ \E i \in Inv, m \in OriginMessages : OriginRejected(i, m)
    \/ \E i \in Inv, ok \in BOOLEAN : ErrorHandlerReturned(i, ok)
    \/ \E i \in Inv : WaitAfterReleased(i)
    \/ \E i \in Inv, x \in IfErrorInputs : IfError(i, x)

\* The engine is followed in a session configured with screenshots on, where
\* the makeScreenshot of the failure hook can succeed or fail.  With
\* screenshots off makeScreenshot returns null without calling the driver:
\* to the engine that is a screenshot that succeeded, so every run of such a
\* session is, but for the configuration flag, a run of the session followed.
InitEngine == Init /\ screenshotsEnabled

Spec == InitEngine /\ [][Next]_vars

\* one invocation, and several ifError calls on its pending result
IfErrorAgain(i, x) ==
    /\ nIfError < MaxIfErrorOnOne
    /\ IfErrorCall(i, x)

NextOne ==
    \/ \E a \in Args : CallRenderThrows(1, a)
    \/ \E a \in Args : CallTop(1, a)
    \/ \E o \in OriginOutcomes : WaitBeforeReleased(1, o)
    \/ \E v \in Values : OriginFulfilled(1, v)
    \/ \E m \in OriginMessages : OriginRejected(1, m)
    \/ \E ok \in BOOLEAN : ErrorHandlerReturned(1, ok)
    \/ WaitAfterReleased(1)
    \/ \E x \in IfErrorInputs : IfErrorAgain(1, x)

SpecOne == Init /\ [][NextOne]_vars

TypeOK ==
    /\ isLogOpened \in BOOLEAN
    /\ nIssued \in 0..MaxInv
    /\ \A i \in Inv : pc[i] \in {"idle", "waitBefore", "waitAfter", "nestedAwait", "done", "dead"}

\* ------------------------------------------------- tab session tracker
\* The driver (this.client) is not part of the source tree; its operations
\* are modelled from the specification: it keeps the open tabs and the
\* active one, and answers each request from its state when the request
\* arrives.

Range(q) == { q[k] : k \in DOMAIN q }

Without(q, t) == SelectSeq(q, LAMBDA x : x # t)

\* the tracker and the driver as one value the operations transform
TabState ==
    [main |-> mainTabID, stopped |-> isSessionStopped, tabs |-> tabIds,
     cur |-> currentTab, queries |-> initQueries]

SetTabState(s) ==
    /\ mainTabID' = s.main
    /\ isSessionStopped' = s.stopped
    /\ tabIds' = s.tabs
    /\ currentTab' = s.cur
    /\ initQueries' = s.queries

\* client.window(t) / client.switchTab(t): t becomes the active tab
DriverWindow(s, t) ==
    IF t \in Range(s.tabs) THEN [s EXCEPT !.cur = t] ELSE s

\* client.close(t): t is closed and the driver is left on f when f is still
\* open, on some open tab otherwise, on none when no tab is left
DriverClose(s, t, f) ==
    IF t \notin Range(s.tabs) THEN s
    ELSE LET rest == Without(s.tabs, t)
         IN [s EXCEPT !.tabs = rest,
                      !.cur = IF rest = << >> THEN NullTab
                              ELSE IF f \in Range(rest) THEN f ELSE rest[1]]

\* client.end(): the browser session is closed with all its tabs
DriverEnd(s) == [s EXCEPT !.tabs = << >>, !.cur = NullTab]

\* client.newWindow(...): a new tab is opened and becomes the active one
DriverNewWindow(s, n) == [s EXCEPT !.tabs = Append(@, n), !.cur = n]

ResetSkipped(s) == s

ResetMainTabId(s) == [s EXCEPT !.main = NullTab, !.queries = 0]

InitMainTabIdUnguarded(s) ==
    [s EXCEPT !.main = s.cur, !.queries = IF s.cur # NullTab THEN @ + 1 ELSE @]

InitMainTabId(s) ==
    IF s.main = NullTab
    THEN [s EXCEPT !.main = s.cur,
                   !.queries = IF s.cur # NullTab THEN @ + 1 ELSE @]
    ELSE s

\* window(handle), switchTab(tabId) and setActiveTab(tabId)
Window(s, t) == DriverWindow(InitMainTabId(s), t)

CloseBrowserWindow(s, focusToTabId, f) ==
    LET s1    == InitMainTabId(s)
        tabId == IF focusToTabId # NullTab THEN focusToTabId ELSE s1.main
        s2    == IF Len(s1.tabs) = 1 /\ s1.tabs[1] = tabId
                 THEN ResetMainTabId(s1) ELSE s1
    IN DriverClose(s2, tabId, f)

SwitchToMainSiblingTabNoSwitch(s) ==
    LET s1 == InitMainTabId(s)
    IN [st |-> s1, ret |-> s1.main # NullTab /\ s1.main \in Range(s1.tabs)]

SwitchToMainSiblingTab(s) ==
    LET s1 == InitMainTabId(s)
    IN IF s1.main # NullTab /\ s1.main \in Range(s1.tabs)
       THEN [st |-> Window(s1, s1.main), ret |-> TRUE]
       ELSE IF Len(s1.tabs) > 0
            THEN [st |-> Window(s1, s1.tabs[1]), ret |-> FALSE]
            ELSE [st |-> s1, ret |-> FALSE]

SwitchToFirstSiblingTab(s) ==
    LET s1          == InitMainTabId(s)
        siblingTabs == SelectSeq(s1.tabs, LAMBDA t : t # s1.main)
    IN IF Len(siblingTabs) = 0
       THEN [st |-> s1, ret |-> FALSE]
       ELSE [st |-> Window(s1, siblingTabs[1]), ret |-> TRUE]

End(s) == [DriverEnd(ResetMainTabId(s)) EXCEPT !.stopped = TRUE]

CloseCurrentTabNoPromote(s, f) ==
    LET currentTabId == s.cur
        s1           == InitMainTabId(s)
        s2           == CloseBrowserWindow(s1, currentTabId, f)
    IN IF currentTabId = s1.main
       THEN IF Len(s2.tabs) > 0 THEN Window(s2, s2.tabs[1]) ELSE End(s2)
       ELSE SwitchToMainSiblingTab(s2).st

CloseCurrentTab(s, f) ==
    LET currentTabId == s.cur
        s1           == InitMainTabId(s)
        s2           == CloseBrowserWindow(s1, currentTabId, f)
    IN IF currentTabId = s1.main
       THEN IF Len(s2.tabs) > 0
            THEN [Window(s2, s2.tabs[1]) EXCEPT !.main = s2.tabs[1]]
            ELSE End(s2)
       ELSE SwitchToMainSiblingTab(s2).st

\* the loop of closeAllOtherTabs over the tab ids it read at its start
RECURSIVE CloseOthers(_, _, _, _)
CloseOthers(s, ids, mainTabId, f) ==
    IF ids = << >> THEN s
    ELSE IF Head(ids) # mainTabId
         THEN CloseOthers(CloseBrowserWindow(Window(s, Head(ids)), Head(ids), f),
                          Tail(ids), mainTabId, f)
         ELSE CloseOthers(s, Tail(ids), mainTabId, f)

CloseAllOtherTabs(s, f) ==
    LET s1 == InitMainTabId(s)
    IN SwitchToMainSiblingTab(CloseOthers(s1, s1.tabs, s1.main, f)).st

CloseFirstSiblingTab(s, f) ==
    SwitchToMainSiblingTab(CloseCurrentTab(SwitchToFirstSiblingTab(s).st, f)).st

TabCalls == {"getMainTabId", "switchTab", "window"}

\* what a call does once initMainTabId has returned
AfterInit(s, kind, t) ==
    IF kind = "getMainTabId" THEN s ELSE DriverWindow(s, t)

\* Operations that take several round trips to the driver run one at a
\* time: each is one action, taken when no call is in flight.
Sequential == pendingInit = << >> /\ ~isSessionStopped

\* the completed operation, its result, the tab it was about and the main
\* tab the tracker held when it was called
Returned(name, okv, idv) ==
    tabReturn' = [op |-> name, ok |-> okv, id |-> idv, was |-> mainTabID]

\* getMainTabId(), switchTab(t) or window(t) is called.  With the main tab
\* known the call goes on at once; otherwise initMainTabId sends its query
\* and the call waits for the reply, while further calls can be made.
TabCallBegin(kind, t) ==
    /\ kind \in TabCalls
    /\ kind = "getMainTabId" => t = NullTab
    /\ kind # "getMainTabId" => (t \in Range(tabIds) /\ ~isSessionStopped)
    /\ IF mainTabID # NullTab
       THEN /\ SetTabState(AfterInit(TabState, kind, t))
            /\ Returned(kind, TRUE, mainTabID)
            /\ UNCHANGED pendingInit
       ELSE /\ Len(pendingInit) < MaxPending
            /\ pendingInit' = Append(pendingInit,
                                     [kind |-> kind, target |-> t, reply |-> currentTab])
            /\ initQueries' = IF currentTab # NullTab THEN initQueries + 1 ELSE initQueries
            /\ UNCHANGED << mainTabID, isSessionStopped, tabIds, currentTab, tabReturn >>
    /\ UNCHANGED << nextTabId, engineVars, waitVars >>

\* the driver's reply to the oldest query arrives: initMainTabId stores it
\* and the call goes on
TabCallReply ==
    /\ pendingInit # << >>
    /\ LET p == Head(pendingInit)
           s == [TabState EXCEPT !.main = p.reply]
       IN /\ SetTabState(AfterInit(s, p.kind, p.target))
          /\ Returned(p.kind, TRUE, p.reply)
    /\ pendingInit' = Tail(pendingInit)
    /\ UNCHANGED << nextTabId, engineVars, waitVars >>

NewWindow ==
    /\ Sequential
    /\ nextTabId <= MaxTabs
    /\ SetTabState(DriverNewWindow(TabState, nextTabId))
    /\ nextTabId' = nextTabId + 1
    /\ Returned("newWindow", TRUE, nextTabId)
    /\ UNCHANGED << pendingInit, engineVars, waitVars >>

CloseBrowserWindowOp(focusToTabId, f) ==
    /\ Sequential
    /\ tabIds # << >>
    /\ focusToTabId \in Range(tabIds) \cup {NullTab}
    /\ SetTabState(CloseBrowserWindow(TabState, focusToTabId, f))
    /\ Returned("closeBrowserWindow", TRUE, focusToTabId)
    /\ UNCHANGED << nextTabId, pendingInit, engineVars, waitVars >>

CloseCurrentTabOp(f) ==
    /\ Sequential
    /\ tabIds # << >>
    /\ SetTabState(CloseCurrentTab(TabState, f))
    /\ Returned("closeCurrentTab", TRUE, currentTab)
    /\ UNCHANGED << nextTabId, pendingInit, engineVars, waitVars >>

CloseAllOtherTabsOp(f) ==
    /\ Sequential
    /\ tabIds # << >>
    /\ SetTabState(CloseAllOtherTabs(TabState, f))
    /\ Returned("closeAllOtherTabs", TRUE, NullTab)
    /\ UNCHANGED << nextTabId, pendingInit, engineVars, waitVars >>

CloseFirstSiblingTabOp(f) ==
    /\ Sequential
    /\ tabIds # << >>
    /\ SetTabState(CloseFirstSiblingTab(TabState, f))
    /\ Returned("closeFirstSiblingTab", TRUE, NullTab)
    /\ UNCHANGED << nextTabId, pendingInit, engineVars, waitVars >>

SwitchToMainSiblingTabOp ==
    /\ Sequential
    /\ SetTabState(SwitchToMainSiblingTab(TabState).st)
    /\ Returned("switchToMainSiblingTab", SwitchToMainSiblingTab(TabState).ret, NullTab)
    /\ UNCHANGED << nextTabId, pendingInit, engineVars, waitVars >>

SwitchToFirstSiblingTabOp ==
    /\ Sequential
    /\ SetTabState(SwitchToFirstSiblingTab(TabState).st)
    /\ Returned("switchToFirstSiblingTab", SwitchToFirstSiblingTab(TabState).ret, NullTab)
    /\ UNCHANGED << nextTabId, pendingInit, engineVars, waitVars >>

EndOp ==
    /\ Sequential
    /\ SetTabState(End(TabState))
    /\ Returned("end", TRUE, NullTab)
    /\ UNCHANGED << nextTabId, pendingInit, engineVars, waitVars >>

Tabs == 1..MaxTabs

NextTabs ==
    \/ \E kind \in TabCalls, t \in Tabs \cup {NullTab} : TabCallBegin(kind, t)
    \/ TabCallReply
    \/ NewWindow
    \/ \E t \in Tabs \cup {NullTab}, f \in Tabs : CloseBrowserWindowOp(t, f)
    \/ \E f \in Tabs : CloseCurrentTabOp(f)
    \/ \E f \in Tabs : CloseAllOtherTabsOp(f)
    \/ \E f \in Tabs : CloseFirstSiblingTabOp(f)
    \/ SwitchToMainSiblingTabOp
    \/ SwitchToFirstSiblingTabOp
    \/ EndOp

SpecTabs == Init /\ [][NextTabs]_vars

TabsTypeOK ==
    /\ mainTabID \in Tabs \cup {NullTab}
    /\ currentTab \in Range(tabIds) \cup {NullTab}
    /\ Range(tabIds) \subseteq Tabs
    /\ Len(tabIds) = Cardinality(Range(tabIds))
    /\ (tabIds # << >>) => currentTab # NullTab
    /\ isSessionStopped => tabIds = << >>
    /\ Len(pendingInit) <= MaxPending

\* ------------------------------------------------------ deadline waits
\* isBecomeHidden, waitForNotVisible, waitForAlert and isBecomeVisible.  One
\* wait is followed from its call to its end.  Time is counted in
\* milliseconds; it passes while the wait is suspended on the driver or on
\* pause, and (SyncDelays) between two readings of Date.now() that follow
\* each other without a suspension.

Selector == "sel"

\* this.formatXpath(xpath)
FormatXpath(xpath) == << "path of ", xpath >>

RootPendingError == << "Wait for not visible is failed, root element is still pending" >>

StillVisibleError(xpath) ==
    << "Wait for not visible failed, element " >> \o FormatXpath(xpath) \o << " is visible" >>

DriverError == << "driver error" >>

PollReturned(v) == [kind |-> "returned", value |-> v, message |-> << >>]

PollThrew(m) == [kind |-> "threw", value |-> "", message |-> m]

PollOps == {"isBecomeHidden", "waitForNotVisible", "waitForAlert", "isBecomeVisible"}

Timeouts == {0 - 1, 0, TICK_TIMEOUT, MaxTimeout}

\* time a call of the driver takes, or by which a timer fires late
Delays == {0, 1, TICK_TIMEOUT, MaxDelay}

\* time between two readings of the clock in code that does not suspend
SyncDelays == {0, 1}

\* the loop condition: waitForAlert tests Date.now() < waitUntil, the other
\* two test expires - Date.now() >= 0
LoopContinues(op, expires, n) ==
    IF op = "waitForAlert" THEN n < expires ELSE expires - n >= 0

DeadlineSoftFalse(op, xpath) == PollReturned("false")

\* what the wait ends with when the loop is left by its condition
DeadlineResult(op, xpath) ==
    IF op = "waitForNotVisible"
    THEN PollThrew(StillVisibleError(xpath))
    ELSE PollReturned("false")

\* what the wait ends with when an evaluation found the awaited state
SuccessResult(op) ==
    IF op = "waitForNotVisible" THEN PollReturned("false") ELSE PollReturned("true")

\* the loop test at time n: begin the next evaluation or leave the loop
LoopTest(p, n) ==
    IF LoopContinues(p.op, p.expires, n)
    THEN [p EXCEPT !.pc = "eval", !.evals = @ + 1, !.began = n, !.testedAt = n,
                   !.paced = @ /\ (p.evals = 0 \/ n - p.ended >= TICK_TIMEOUT)]
    ELSE [p EXCEPT !.pc = "done", !.testedAt = n,
                   !.result = DeadlineResult(p.op, Selector)]

PauseSkipped(n, d) == n + d

\* pause(TICK_TIMEOUT): the timer fires d after its time
Pause(n, d) == n + TICK_TIMEOUT + d

RootFailureIgnored(p, n) == LoopTest(p, n)

\* catch of waitForNotVisible around waitForRoot
RootFailed(p, n) ==
    [p EXCEPT !.pc = "done", !.result = PollThrew(RootPendingError)]

DriverWaitRethrown(p) == [p EXCEPT !.pc = "done", !.result = PollThrew(DriverError)]

\* catch of isBecomeVisible around the driver's waitForVisible
DriverWaitFailed(p) == [p EXCEPT !.pc = "done", !.result = PollReturned("false")]

\* a wait is called with a timeout; d passes before the first loop test of
\* isBecomeHidden and waitForAlert
PollCall(op, t, d) ==
    /\ poll.pc = "idle"
    /\ LET p == [poll EXCEPT !.op = op, !.timeout = t, !.expires = now + t]
       IN CASE op = "waitForNotVisible" ->
                 /\ d = 0
                 /\ poll' = [p EXCEPT !.pc = "root"]
                 /\ now' = now
            [] op = "isBecomeVisible" ->
                 /\ d = 0
                 /\ poll' = [p EXCEPT !.pc = "driverWait"]
                 /\ now' = now
            [] OTHER ->
                 /\ poll' = LoopTest(p, now + d)
                 /\ now' = now + d
    /\ UNCHANGED << lastOp, page, valueWrite, engineVars, tabVars >>

\* waitForRoot settles after d
RootReplied(ok, d) ==
    /\ poll.pc = "root"
    /\ now' = now + d
    /\ poll' = IF ok
               THEN LoopTest(poll, now + d)
               ELSE [RootFailed(poll, now + d) EXCEPT !.rootFailed = TRUE]
    /\ UNCHANGED << lastOp, page, valueWrite, engineVars, tabVars >>

\* the driver's waitForVisible of isBecomeVisible settles; it rejects when
\* the element is not visible after the timeout
DriverWaitReplied(ok, d) ==
    /\ poll.pc = "driverWait"
    /\ now' = now + d
    /\ poll' = IF ok
               THEN [poll EXCEPT !.pc = "done", !.seen = TRUE, !.result = SuccessResult(poll.op)]
               ELSE DriverWaitFailed(poll)
    /\ UNCHANGED << lastOp, page, valueWrite, engineVars, tabVars >>

EvalOutcomes == {"found", "notFound", "error"}

EvalRejectionThrown(p) == [p EXCEPT !.pc = "done", !.result = PollThrew(DriverError)]

\* the query of an evaluation rejects with a driver error: waitForAlert
\* catches whatever alertText rejects with and pauses; the await of isVisible
\* in isBecomeHidden and waitForNotVisible is in no try block
EvalRejected(p) ==
    IF p.op = "waitForAlert"
    THEN [p EXCEPT !.pc = "pause"]
    ELSE [p EXCEPT !.pc = "done", !.result = PollThrew(DriverError)]

\* the evaluation in flight ends after d: isVisible answers (found: the
\* element is not visible) or fails; alertText resolves (found), rejects
\* because no alert is open (notFound) or rejects with another driver error
EvalReplied(o, d) ==
    /\ poll.pc = "eval"
    /\ now' = now + d
    /\ LET p == [poll EXCEPT !.ended = now + d, !.failed = (o = "error")]
       IN poll' = CASE o = "found" ->
                         [p EXCEPT !.pc = "done", !.seen = TRUE, !.result = SuccessResult(p.op)]
                    [] o = "error" -> EvalRejected(p)
                    [] OTHER -> [p EXCEPT !.pc = "pause"]
    /\ UNCHANGED << lastOp, page, valueWrite, engineVars, tabVars >>

\* the pause after an unsuccessful evaluation ends, then the loop test
PauseElapsed(d) ==
    /\ poll.pc = "pause"
    /\ poll.evals < MaxEvals
    /\ now' = Pause(now, d)
    /\ poll' = LoopTest(poll, Pause(now, d))
    /\ UNCHANGED << lastOp, page, valueWrite, engineVars, tabVars >>

NextPoll ==
    \/ \E op \in PollOps, t \in Timeouts, d \in SyncDelays : PollCall(op, t, d)
    \/ \E ok \in BOOLEAN, d \in Delays : RootReplied(ok, d)
    \/ \E ok \in BOOLEAN, d \in Delays : DriverWaitReplied(ok, d)
    \/ \E o \in EvalOutcomes, d \in Delays : EvalReplied(o, d)
    \/ \E d \in SyncDelays : PauseElapsed(d)

SpecPoll == Init /\ [][NextPoll]_vars

\* the driver answers every call and every timer fires
FairSpecPoll ==
    /\ SpecPoll
    /\ WF_vars(\E ok \in BOOLEAN, d \in Delays : RootReplied(ok, d))
    /\ WF_vars(\E ok \in BOOLEAN, d \in Delays : DriverWaitReplied(ok, d))
    /\ WF_vars(\E o \in EvalOutcomes, d \in Delays : EvalReplied(o, d))
    /\ WF_vars(\E d \in SyncDelays : PauseElapsed(d))

\* -------------------------------------------- waits and actions on elements
\* waitForExist, waitForVisible, click, clickButton, clickCoordinates and
\* setValue run from their call to their end without another operation of
\* the session in between; each is one action.  What the driver and the
\* file writer answer is an input of the operation.

Outcomes == {"ok", "fail"}

Call(name, arg) == [name |-> name, arg |-> arg]

OpReturned(v) == [kind |-> "returned", value |-> v, message |-> << >>]

OpThrew(m) == [kind |-> "threw", value |-> "", message |-> m]

ExistError == << "element does not exist" >>

ScreenshotError == << "screenshot failed" >>

VisibleTimeoutError(timeout) ==
    << "Wait for visible failed, element not exists after ", timeout, "ms" >>

\* devtoolHighlight: with the devtool configured the page is asked to
\* highlight the element; a failure is logged and dropped
DevtoolHighlight(in) ==
    IF in.highlight = "off" THEN << >> ELSE << Call("execute", 0) >>

\* the best-effort part of waitForExist: scroll into view, then move the
\* pointer, unless skipMoveToObject; a failure of the scroll skips the move
MoveToObject(in) ==
    IF in.skipMove THEN << >>
    ELSE << Call("executeAsync", 0) >> \o
         (IF in.scroll = "ok" THEN << Call("moveToObject", 0) >> ELSE << >>)

ExistFollowUpStrict(in, timeout) ==
    LET calls == DevtoolHighlight(in) \o << Call("waitForExist", timeout) >>
    IN IF in.exists = "fail"
       THEN [calls |-> calls, result |-> OpThrew(ExistError)]
       ELSE [calls |-> calls \o MoveToObject(in),
             result |-> IF ~in.skipMove /\ (in.scroll = "fail" \/ in.move = "fail")
                        THEN OpThrew(DriverError) ELSE OpReturned("exists")]

WaitForExist(in, timeout) ==
    LET calls == DevtoolHighlight(in) \o << Call("waitForExist", timeout) >>
    IN IF in.exists = "fail"
       THEN [calls |-> calls, result |-> OpThrew(ExistError)]
       ELSE [calls |-> calls \o MoveToObject(in), result |-> OpReturned("exists")]

TimeLeftOrNone(waitTime) == waitTime >= 0

\* the test of waitForVisible on the time left, as the code goes on past it
TimeLeft(waitTime) == ~(waitTime <= 0)

\* waitForVisible with the existence wait and its follow-up taking spent ms
WaitForVisible(in, timeout, spent) ==
    LET w        == WaitForExist(in, timeout)
        waitTime == timeout - spent
    IN IF w.result.kind = "threw" THEN w
       ELSE IF ~TimeLeft(waitTime)
            THEN [calls |-> w.calls, result |-> OpThrew(VisibleTimeoutError(timeout))]
            ELSE [calls |-> w.calls \o << Call("waitForVisible", waitTime) >>,
                  result |-> IF in.vis = "ok" THEN OpReturned("visible")
                             ELSE OpThrew(DriverError)]

\* makeScreenshot: nothing when screenshots are off; otherwise the driver's
\* screenshot and the file write, either of which can fail
MakeScreenshot(in, enabled) ==
    IF ~enabled THEN [calls |-> << >>, ok |-> TRUE]
    ELSE IF in.shot = "driverFails"
         THEN [calls |-> << Call("makeScreenshot", 0) >>, ok |-> FALSE]
         ELSE [calls |-> << Call("makeScreenshot", 0), Call("write", 0) >>,
               ok |-> in.shot = "ok"]

ClickOps == {"click", "clickButton", "clickCoordinates"}

ActionOps == ClickOps \cup {"setValue"}

\* the driver's part of an action
Act(op, in) ==
    [calls |-> << Call(IF op = "setValue" THEN "setValue" ELSE "click", 0) >>,
     result |-> IF in.act = "ok" THEN OpReturned("done") ELSE OpThrew(DriverError)]

\* click, clickButton, clickCoordinates (numeric position): wait for the
\* element, take the screenshot, click.  setValue (a value that is not
\* empty, no JS emulation): wait, set the value, take the screenshot.
Action(op, in, timeout, enabled) ==
    LET w == WaitForExist(in, timeout)
        s == MakeScreenshot(in, enabled)
        a == Act(op, in)
    IN IF w.result.kind = "threw" THEN w
       ELSE IF op \in ClickOps
            THEN IF ~s.ok
                 THEN [calls |-> w.calls \o s.calls, result |-> OpThrew(ScreenshotError)]
                 ELSE [calls |-> w.calls \o s.calls \o a.calls, result |-> a.result]
            ELSE IF a.result.kind = "threw"
                 THEN [calls |-> w.calls \o a.calls, result |-> a.result]
                 ELSE [calls |-> w.calls \o a.calls \o s.calls,
                       result |-> IF s.ok THEN OpReturned("done")
                                  ELSE OpThrew(ScreenshotError)]

ExistInputs ==
    { [DefaultIn EXCEPT !.highlight = h, !.exists = e, !.skipMove = k, !.scroll = sc, !.move = mv] :
        h \in {"off", "fail"}, e \in Outcomes, k \in BOOLEAN, sc \in Outcomes, mv \in Outcomes }

VisibleInputs ==
    { [DefaultIn EXCEPT !.exists = e, !.skipMove = k, !.vis = v] :
        e \in Outcomes, k \in BOOLEAN, v \in Outcomes }

ActionInputs ==
    { [DefaultIn EXCEPT !.exists = e, !.scroll = sc, !.shot = sh, !.act = a] :
        e \in Outcomes, sc \in Outcomes, sh \in {"ok", "driverFails", "writeFails"},
        a \in Outcomes }

Completed(name, in, timeout, spent, r) ==
    lastOp' = [op |-> name, in |-> in, timeout |-> timeout, spent |-> spent,
               calls |-> r.calls, result |-> r.result]

WaitForExistOp(in, t) ==
    /\ Completed("waitForExist", in, t, 0, WaitForExist(in, t))
    /\ UNCHANGED << page, valueWrite, now, poll, engineVars, tabVars >>

WaitForVisibleOp(in, t, d) ==
    /\ Completed("waitForVisible", in, t, d, WaitForVisible(in, t, d))
    /\ UNCHANGED << page, valueWrite, now, poll, engineVars, tabVars >>

ActionOp(op, in, t) ==
    /\ op \in ActionOps
    /\ Completed(op, in, t, 0, Action(op, in, t, screenshotsEnabled))
    /\ UNCHANGED << page, valueWrite, now, poll, engineVars, tabVars >>

\* ------------------------------------------------------------- openPage
\* openPage races the page operation against a timer.  The page operation
\* and the timer are followed also after openPage has settled.

TimerKept(timer) == timer

\* clearTimeout(timer)
ClearTimeout(timer) == IF timer = "armed" THEN "cleared" ELSE timer

\* openPage is called: the page operation starts and the timer is armed
OpenPage ==
    /\ page.pc = "idle"
    /\ page' = [page EXCEPT !.pc = "racing", !.operation = "pending", !.timer = "armed"]
    /\ UNCHANGED << lastOp, valueWrite, now, poll, engineVars, tabVars >>

\* openPageFromURI settles.  While the race is open it decides it: on
\* success the code after the await clears the timer and returns, on
\* failure the await throws and the rest of openPage is skipped.
PageOperationSettled(ok) ==
    /\ page.operation = "pending"
    /\ page' = IF page.pc = "racing"
               THEN IF ok
                    THEN [page EXCEPT !.operation = "fulfilled", !.pc = "done",
                                      !.timer = ClearTimeout(@), !.result = "returned"]
                    ELSE [page EXCEPT !.operation = "rejected", !.pc = "done",
                                      !.result = "threwOperation"]
               ELSE [page EXCEPT !.operation = IF ok THEN "fulfilled" ELSE "rejected"]
    /\ UNCHANGED << lastOp, valueWrite, now, poll, engineVars, tabVars >>

\* the timer fires; while the race is open this rejects it
TimerFired ==
    /\ page.timer = "armed"
    /\ page' = IF page.pc = "racing"
               THEN [page EXCEPT !.timer = "fired", !.pc = "done", !.result = "threwTimeout"]
               ELSE [page EXCEPT !.timer = "fired"]
    /\ UNCHANGED << lastOp, valueWrite, now, poll, engineVars, tabVars >>

\* ------------------------------------------------- setValue with a value
\* setValue(xpath, value, emulateViaJS) with a value that is not empty, from
\* its call to its end, the write being followed also after setValue has
\* settled.

\* the end of makeScreenshot's test: with screenshots off it returns null
\* and setValue returns; otherwise the driver is asked for the screenshot
AfterWrite(w, enabled) ==
    IF enabled
    THEN [w EXCEPT !.pc = "awaitShot", !.shot = "pending"]
    ELSE [w EXCEPT !.pc = "done", !.result = "returned"]

\* setValue is called.  The wait for the element fails, or it succeeds and
\* the write is started: client.setValue is awaited, simulateJSFieldChange
\* is called and setValue goes on to makeScreenshot
SetValueCall(emulateViaJS, exists) ==
    /\ valueWrite.pc = "idle"
    /\ LET w == [valueWrite EXCEPT !.emulateViaJS = emulateViaJS]
       IN valueWrite' =
            IF exists = "fail"
            THEN [w EXCEPT !.pc = "done", !.result = "threw"]
            ELSE IF emulateViaJS
                 THEN AfterWrite([w EXCEPT !.write = "pending"], screenshotsEnabled)
                 ELSE [w EXCEPT !.pc = "awaitWrite", !.write = "pending"]
    /\ UNCHANGED << lastOp, page, now, poll, engineVars, tabVars >>

\* the write settles: the driver's setValue, or the script of
\* simulateJSFieldChange (it throws when the script reports an error)
WriteSettled(ok) ==
    /\ valueWrite.write = "pending"
    /\ LET w == [valueWrite EXCEPT !.write = IF ok THEN "done" ELSE "failed"]
       IN valueWrite' =
            IF valueWrite.pc = "awaitWrite"
            THEN IF ok THEN AfterWrite(w, screenshotsEnabled)
                 ELSE [w EXCEPT !.pc = "done", !.result = "threw"]
            ELSE w
    /\ UNCHANGED << lastOp, page, now, poll, engineVars, tabVars >>

\* the screenshot awaited by setValue is answered and written, or fails
ShotSettled(ok) ==
    /\ valueWrite.pc = "awaitShot"
    /\ valueWrite' = [valueWrite EXCEPT
                         !.pc = "done",
                         !.shot = IF ok THEN "done" ELSE "failed",
                         !.shotAfterWrite = (valueWrite.write # "pending"),
                         !.result = IF ok THEN "returned" ELSE "threw"]
    /\ UNCHANGED << lastOp, page, now, poll, engineVars, tabVars >>

NextOps ==
    \/ \E in \in ExistInputs, t \in Timeouts : WaitForExistOp(in, t)
    \/ \E in \in VisibleInputs, t \in Timeouts, d \in Delays : WaitForVisibleOp(in, t, d)
    \/ \E op \in ActionOps, in \in ActionInputs : ActionOp(op, in, MaxTimeout)
    \/ OpenPage
    \/ \E ok \in BOOLEAN : PageOperationSettled(ok)
    \/ TimerFired

SpecOps == Init /\ [][NextOps]_vars

\* the operations that leave work in flight when they settle: openPage its
\* timer and page operation, setValue its write
NextInFlight ==
    \/ OpenPage
    \/ \E ok \in BOOLEAN : PageOperationSettled(ok)
    \/ TimerFired
    \/ \E e \in BOOLEAN, x \in Outcomes : SetValueCall(e, x)
    \/ \E ok \in BOOLEAN : WriteSettled(ok)
    \/ \E ok \in BOOLEAN : ShotSettled(ok)

SpecInFlight == Init /\ [][NextInFlight]_vars

\* ------------------------------------------------------------ properties

\* a step of invocation i is open: started and not yet ended
Open(i) == startSteps[i] > endSteps[i]

\* nothing of invocation i is still running
Quiescent(i) ==
    /\ pc[i] = "done"
    /\ OriginSettled(result[i])
    /\ catchHandler[i] # "awaitErrorHandler"

\* the message the caller's interceptor x yields for an error raised with
\* message m by a call with arguments a
ExpectedMessage(x, m, a) ==
    CASE x.type = "string"   -> x.s
      [] x.type = "function" -> UserFn(x.s, m, a)
      [] OTHER               -> m

EmptyArgs == {"empty"}

\* C1 (as claimed): every startStep is matched by exactly one endStep: no
\* invocation ever has more endStep than startStep logs, and once an
\* invocation has run to its end it has as many endStep as startStep logs.
C1_StepPairing ==
    \A i \in Inv :
        /\ endSteps[i] <= startSteps[i]
        /\ Quiescent(i) => endSteps[i] = startSteps[i]

\* C2 (as claimed): whenever the pending result of a top-level action is
\* settled, its endStep has been logged and, no other step being open, the
\* guard is free.
C2_GuardFreeAtSettlement ==
    \A i \in Inv :
        (top[i] /\ Settled(promise[i])) =>
            /\ endSteps[i] >= 1
            /\ (\A j \in Inv \ {i} : ~Open(j)) => ~isLogOpened

\* C3: a settled pending result carries exactly what the origin of that
\* invocation produced: the value it returned or resolved with, or the error
\* object it threw or rejected with, in the top-level and in the nested path.
C3_ResultTransparency ==
    \A i \in Inv :
        /\ promise[i].state = "fulfilled" =>
              /\ result[i].state \in {"returned", "fulfilled"}
              /\ promise[i].value = result[i].value
              /\ promise[i].value.from = i
        /\ promise[i].state = "rejected" =>
              /\ result[i].state \in {"threw", "rejected"}
              /\ promise[i].error = result[i].error
              /\ promise[i].error = OriginError(i)

C3_Witness ==
    \E i, j \in Inv :
        /\ top[i] /\ promise[i].state = "fulfilled" /\ result[i].state = "fulfilled"
        /\ ~top[j] /\ pc[j] = "done" /\ promise[j].state = "rejected"

\* C4: when an invocation fails, the message of the error its pending result
\* rejects with is the interceptor that was handed to ifError before the
\* origin settled, applied to the error and the call arguments: the literal
\* string, the function's return value, or the origin's own message when no
\* interceptor was handed over by then.
C4_InterceptorResult ==
    \A i \in Inv :
        promise[i].state = "rejected" =>
            errMessage[i] = ExpectedMessage(ifErrorBefore[i], originMessage[i], args[i])

C4_Witness ==
    \E i \in Inv :
        /\ promise[i].state = "rejected"
        /\ ifErrorBefore[i].type = "string"
        /\ originMessage[i] = "boom"
        /\ errMessage[i] = "nope"

\* C5 (as claimed): after ifError(null) or ifError(undefined) the pending
\* result of the invocation is itself rejected with the configuration error.
C5_PendingResultRejected ==
    \A i \in Inv :
        ifErrorReturn[i].arg \in EmptyArgs =>
            /\ promise[i].state = "rejected"
            /\ promise[i].error = ReasonError(EmptyInterceptorError)

\* C5 (amended): ifError(null) and ifError(undefined) return a new promise
\* rejected with the reason 'Error interceptor can not be empty'; the call
\* itself leaves the pending result of the invocation and its interceptor as
\* they were, and the pending result rejects only with the origin's error.
C5_EmptyInterceptorReturn ==
    /\ [](\A i \in Inv :
            ifErrorReturn[i].arg \in EmptyArgs =>
                /\ ifErrorReturn[i].returned = "newRejected"
                /\ ifErrorReturn[i].reason = EmptyInterceptorError
                /\ promise[i].state = "rejected" => promise[i].error = OriginError(i))
    /\ [][\A i \in Inv :
            (nIfError' # nIfError /\ ifErrorReturn'[i].arg \in EmptyArgs) =>
                /\ promise'[i] = promise[i]
                /\ errorLogInterceptor'[i] = errorLogInterceptor[i]]_vars

C5_Witness ==
    \E i \in Inv :
        /\ ifErrorReturn[i].arg = "empty"
        /\ ifErrorReturn[i].returned = "newRejected"
        /\ promise[i].state = "fulfilled"

\* C6 (as claimed): when the origin of a top-level action rejected and the
\* failure hook's screenshot failed, then once the invocation has run to its
\* end the pending result is rejected with the origin's error, endStep is
\* logged and, no other step being open, the guard is free.
C6_FailureHookRobust ==
    \A i \in Inv :
        (top[i] /\ catchHandler[i] = "failed" /\ pc[i] = "done") =>
            /\ promise[i].state = "rejected"
            /\ promise[i].error = OriginError(i)
            /\ endSteps[i] = 1
            /\ (\A j \in Inv \ {i} : ~Open(j)) => ~isLogOpened

\* C7 (as claimed): at most one step is open at any time.
C7_OneOpenStep ==
    Cardinality({i \in Inv : Open(i)}) <= 1

\* C8: an action invoked while the guard is busy takes no step of its own:
\* its call leaves the guard busy and logs nothing, it never has a startStep
\* or endStep log, its completion does not touch the guard, a failure of its
\* origin rejects its pending result with the intercepted message, and the
\* guard is only ever released by an invocation that opened a step (a
\* top-level one that logged startStep) as it logs its endStep.
C8_NestedInvocation ==
    /\ [](\A i \in Inv :
            (pc[i] \in {"nestedAwait", "done"} /\ ~top[i]) =>
                /\ startSteps[i] = 0 /\ endSteps[i] = 0
                /\ result[i].state \in {"threw", "rejected"} =>
                      /\ promise[i].state = "rejected"
                      /\ promise[i].error = OriginError(i)
                      /\ errMessage[i] =
                            ExpectedMessage(ifErrorBefore[i], originMessage[i], args[i]))
    /\ [][/\ \A i \in Inv :
               (isLogOpened /\ pc[i] = "idle" /\ pc'[i] \notin {"idle", "dead"}) =>
                   /\ isLogOpened'
                   /\ pc'[i] \in {"nestedAwait", "done"} /\ ~top'[i]
                   /\ startSteps' = startSteps /\ endSteps' = endSteps
          /\ \A i \in Inv :
               (pc[i] = "nestedAwait" /\ pc'[i] # pc[i]) =>
                   /\ isLogOpened' = isLogOpened
                   /\ startSteps' = startSteps /\ endSteps' = endSteps
          /\ (isLogOpened /\ ~isLogOpened') =>
                \E i \in Inv : top[i] /\ startSteps'[i] >= 1 /\ endSteps'[i] > endSteps[i]
       ]_vars

C8_Witness ==
    \E i \in Inv :
        /\ ~top[i] /\ pc[i] = "done"
        /\ result[i].state = "rejected" /\ promise[i].state = "rejected"
        /\ isLogOpened

\* C9 (as claimed): the pending result of a top-level action is never
\* settled before its after-instruction breakpoint wait has been released.
C9_SettlesAfterPostBreakpoint ==
    \A i \in Inv :
        (top[i] /\ Settled(promise[i])) => pc[i] = "done"

\* C10 (as claimed): when the display message fails to render, the pending
\* result is rejected, no step is opened and the guard is left as it was.
C10_RenderFailureRejects ==
    \A i \in Inv :
        pc[i] = "dead" =>
            /\ promise[i].state = "rejected"
            /\ startSteps[i] = 0

\* C11: when the origin of a top-level action returns a plain value, the
\* step is opened and closed in the same run (one startStep, one endStep,
\* guard freed by that run); the pending result stays pending while the
\* after-instruction breakpoint is held, its release is always possible, and
\* once released the pending result is fulfilled with the returned value.
C11_SynchronousOrigin ==
    /\ [](\A i \in Inv :
            (top[i] /\ result[i].state = "returned") =>
                /\ startSteps[i] = 1 /\ endSteps[i] = 1
                /\ pc[i] \in {"waitAfter", "done"}
                /\ pc[i] = "waitAfter" =>
                      (promise[i].state = "pending" /\ ENABLED WaitAfterReleased(i))
                /\ pc[i] = "done" =>
                      /\ promise[i].state = "fulfilled"
                      /\ promise[i].value = result[i].value
                      /\ promise[i].value.from = i)
    /\ [][\A i \in Inv :
            (pc[i] = "waitBefore" /\ result'[i].state = "returned") => ~isLogOpened']_vars

C11_Witness ==
    \E i \in Inv :
        /\ top[i] /\ result[i].state = "returned" /\ pc[i] = "done"
        /\ promise[i].state = "fulfilled" /\ promise[i].value.v = "v1"
        /\ endSteps[i] = 1 /\ ~isLogOpened

\* C12: an ifError call on one pending result changes the interceptor of no
\* other invocation: an invocation whose pending result never had ifError
\* called on it keeps the default interceptor and, if it fails, rejects with
\* its origin's own message, whatever was handed to ifError elsewhere.
C12_PerInvocationInterceptor ==
    \A j \in Inv :
        ifErrorReturn[j].arg = "none" =>
            /\ errorLogInterceptor[j] = DefaultInterceptor
            /\ promise[j].state = "rejected" => errMessage[j] = originMessage[j]

C12_Witness ==
    \E i, j \in Inv :
        /\ i # j
        /\ ifErrorReturn[i].arg = "string" /\ promise[i].state = "rejected"
        /\ errMessage[i] = "nope"
        /\ ifErrorReturn[j].arg = "none" /\ promise[j].state = "rejected"
        /\ errMessage[j] = "boom"

\* C13: once a pending result is settled nothing changes it or the message
\* of its error any more, so an interceptor handed over afterwards is never
\* applied; and an ifError call made once a pending result is settled (every
\* step that raises nIfError is one) logs no step and leaves the guard and
\* the origins' results alone.
C13_LateInterceptor ==
    [][/\ \A i \in Inv :
            Settled(promise[i]) =>
                (promise'[i] = promise[i] /\ errMessage'[i] = errMessage[i])
       /\ \A i \in Inv :
            (Settled(promise[i]) /\ nIfError' # nIfError) =>
                /\ startSteps' = startSteps /\ endSteps' = endSteps
                /\ isLogOpened' = isLogOpened
                /\ result' = result
      ]_vars

C13_Witness ==
    \E i \in Inv :
        /\ promise[i].state = "rejected" /\ pc[i] = "done"
        /\ ifErrorReturn[i].arg = "string" /\ ifErrorBefore[i].type = "none"
        /\ errMessage[i] = "boom"

\* C14 (as claimed): once an interceptor has been installed by ifError, no
\* later ifError call on the same pending result replaces it.
C14_SetOnce ==
    [][\A i \in Inv :
          errorLogInterceptor[i] # DefaultInterceptor =>
              errorLogInterceptor'[i] = errorLogInterceptor[i]]_vars

\* C14 (amended): every ifError call with a string or a function installs
\* its interceptor, a second call replacing the first: the slot always holds
\* what the last such call handed over, and a failing invocation rejects with
\* the last interceptor handed over before its origin settled.
C14_LastCallWins ==
    \A i \in Inv :
        /\ ifErrorReturn[i].arg = "string" =>
              errorLogInterceptor[i] = [kind |-> "literal", s |-> "nope"]
        /\ ifErrorReturn[i].arg = "function" =>
              errorLogInterceptor[i] = [kind |-> "function", s |-> "F"]
        /\ promise[i].state = "rejected" =>
              errMessage[i] = ExpectedMessage(ifErrorBefore[i], originMessage[i], args[i])

C14_Witness ==
    /\ nIfError >= 2
    /\ ifErrorBefore[1].type = "string"
    /\ ifErrorReturn[1].arg = "function"
    /\ errorLogInterceptor[1] = [kind |-> "function", s |-> "F"]
    /\ promise[1].state = "rejected"
    /\ errMessage[1] = "nope"

\* C33 (as claimed): whenever the step of a top-level action whose origin
\* failed, by a synchronous throw or by a rejection, has been closed with
\* endStep, a screenshot attempt of the failure hook was made before.
C33_FailureHookScreenshot ==
    \A i \in Inv :
        (top[i] /\ result[i].state \in {"threw", "rejected"} /\ endSteps[i] >= 1) =>
            shotAttempts[i] >= 1

\* C34 (as claimed): an action invoked while a step is open first waits on
\* its own before-instruction breakpoint, its origin not yet called, and it
\* ends only by the release of its own after-instruction breakpoint wait.
C34_NestedBreakpoints ==
    [][\A i \in Inv :
          /\ (isLogOpened /\ pc[i] = "idle" /\ pc'[i] \notin {"idle", "dead"}) =>
                 (pc'[i] = "waitBefore" /\ result'[i] = result[i])
          /\ (~top'[i] /\ pc[i] \notin {"idle", "done"} /\ pc'[i] = "done") =>
                 pc[i] = "waitAfter"]_vars

\* C35: the interceptor of an invocation has been called exactly once when
\* the origin of that invocation has failed, with the error as it was raised
\* and the call arguments (the message it yields is the one the error then
\* carries), and never when the origin has not failed; no invocation's
\* failure calls the interceptor of another.
C35_InterceptorOnce ==
    \A i \in Inv :
        /\ interceptorCalls[i] = IF result[i].state \in {"threw", "rejected"} THEN 1 ELSE 0
        /\ result[i].state \in {"threw", "rejected"} =>
              errMessage[i] = ExpectedMessage(ifErrorBefore[i], originMessage[i], args[i])

\* one origin failed with a function as interceptor, another succeeded
C35_Witness ==
    \E i, j \in Inv :
        /\ result[i].state = "rejected" /\ interceptorCalls[i] = 1
        /\ ifErrorBefore[i].type = "function" /\ errMessage[i] = "F(boom,a)"
        /\ result[j].state = "fulfilled" /\ promise[j].state = "fulfilled"
        /\ interceptorCalls[j] = 0

\* C36 (as claimed): in every reachable state the guard isLogOpened is true
\* exactly when a step is open, that is when some startStep has been logged
\* whose endStep has not.
C36_GuardMatchesOpenStep ==
    isLogOpened <=> (\E i \in Inv : Open(i))

\* ------------------------------------------------------ tab tracker claims
ClosingOps == {"closeBrowserWindow", "closeCurrentTab", "closeAllOtherTabs",
               "closeFirstSiblingTab"}

\* C15: after any tab-closing operation has completed, the tracked main
\* tab is either null or the id of a tab that is still open.
C15_MainTabOpenAfterClose ==
    tabReturn.op \in ClosingOps =>
        (mainTabID = NullTab \/ mainTabID \in Range(tabIds))

\* C16: closeCurrentTab called while the main tab is the only open tab
\* leaves mainTabID null and the session ended; a getMainTabId after it
\* sends a query to the driver and does not return the closed tab's id.
C16_ClosingLastTab ==
    /\ [][\A f \in Tabs :
            (/\ CloseCurrentTabOp(f)
             /\ tabIds = << currentTab >>
             /\ mainTabID \in {NullTab, currentTab})
            => /\ mainTabID' = NullTab
               /\ isSessionStopped'
               /\ tabIds' = << >>
               /\ initQueries' = 0]_vars
    /\ [][(isSessionStopped /\ TabCallBegin("getMainTabId", NullTab))
            => /\ Len(pendingInit') = Len(pendingInit) + 1
               /\ pendingInit'[Len(pendingInit')].reply = NullTab]_vars
    /\ [](isSessionStopped =>
            /\ mainTabID = NullTab
            /\ tabReturn.op = "getMainTabId" => tabReturn.id = NullTab)

C16_Witness ==
    /\ tabReturn.op = "closeCurrentTab"
    /\ tabReturn.id = 1
    /\ tabReturn.was = 1
    /\ nextTabId = 2
    /\ isSessionStopped
    /\ mainTabID = NullTab
    /\ tabIds = << >>

\* C17: between two resets the initialization of the main tab queries the
\* driver's current tab at most once, whatever getMainTabId, switchTab and
\* window calls are made, overlapping ones included.
C17_SingleInitQuery == initQueries <= 1

\* C18: closeCurrentTab on the main tab with other tabs open closes it,
\* makes the first remaining tab the active tab and the new mainTabID, and
\* does not end the session.
C18_CloseMainPromotes ==
    [][\A f \in Tabs :
         (/\ CloseCurrentTabOp(f)
          /\ Len(tabIds) > 1
          /\ mainTabID \in {NullTab, currentTab})
         => LET rest == Without(tabIds, currentTab)
            IN /\ tabIds' = rest
               /\ currentTab' = rest[1]
               /\ mainTabID' = rest[1]
               /\ ~isSessionStopped']_vars

C18_Witness ==
    /\ tabReturn.op = "closeCurrentTab"
    /\ tabReturn.was = tabReturn.id
    /\ tabReturn.id \notin Range(tabIds)
    /\ tabIds # << >>
    /\ mainTabID = tabIds[1]
    /\ currentTab = tabIds[1]
    /\ ~isSessionStopped

\* C19: closeCurrentTab on a tab that is not the main tab, with the main
\* tab open, closes exactly the active tab, leaves the main tab active and
\* leaves mainTabID unchanged.
C19_CloseOtherReturnsToMain ==
    [][\A f \in Tabs :
         (/\ CloseCurrentTabOp(f)
          /\ mainTabID # NullTab
          /\ mainTabID \in Range(tabIds)
          /\ currentTab # mainTabID)
         => /\ tabIds' = Without(tabIds, currentTab)
            /\ currentTab' = mainTabID
            /\ mainTabID' = mainTabID]_vars

C19_Witness ==
    /\ tabReturn.op = "closeCurrentTab"
    /\ tabReturn.was # NullTab
    /\ tabReturn.id # tabReturn.was
    /\ tabReturn.id \notin Range(tabIds)
    /\ Len(tabIds) = 2
    /\ mainTabID = tabReturn.was
    /\ currentTab = mainTabID

\* C20: switchToMainSiblingTab makes the main tab active and returns true
\* when the main tab is open; otherwise, with a tab open, the first open
\* tab becomes the active tab and the new mainTabID; with no tab open it
\* returns false.
C20_SwitchToMainSibling ==
    tabReturn.op = "switchToMainSiblingTab" =>
        IF tabReturn.was \in Range(tabIds) \/ (tabReturn.was = NullTab /\ tabIds # << >>)
        THEN /\ tabReturn.ok
             /\ currentTab = mainTabID
             /\ tabReturn.was # NullTab => mainTabID = tabReturn.was
        ELSE IF tabIds # << >>
             THEN currentTab = tabIds[1] /\ mainTabID = tabIds[1]
             ELSE ~tabReturn.ok

\* C32 (as claimed): closeBrowserWindow(target) resets mainTabID to null
\* exactly when the set of open tabs is {target} and target is the main tab,
\* and in every other case leaves the main tab as it is; with no target
\* given the target is the main tab.  The main tab is the one getMainTabId
\* answers with: the tracked one, or on a tracker not yet initialized the
\* tab that is current at the call.
C32_ResetOnLastMain ==
    [][(tabReturn'.op = "closeBrowserWindow" /\ tabIds' # tabIds) =>
          LET main   == IF mainTabID # NullTab THEN mainTabID ELSE currentTab
              target == IF tabReturn'.id # NullTab THEN tabReturn'.id ELSE main
          IN IF Range(tabIds) = {target} /\ target = main
             THEN mainTabID' = NullTab
             ELSE mainTabID' = main]_vars

\* C37 (as claimed): when the main tab is the only open tab, a call of
\* closeFirstSiblingTab closes nothing: the open tabs are the same after it,
\* the main tab is still the main tab and the session is not stopped.
C37_NoSiblingNothingClosed ==
    [][(tabReturn'.op = "closeFirstSiblingTab" /\ pendingInit' = pendingInit) =>
          LET main == IF mainTabID # NullTab THEN mainTabID ELSE currentTab
          IN (Range(tabIds) = {main} /\ ~isSessionStopped) =>
                /\ tabIds' = tabIds
                /\ mainTabID' = main
                /\ ~isSessionStopped']_vars

Switches == {"switchTab", "window", "switchToFirstSiblingTab"}

\* C40: a step of switchTab, window (setActiveTab is a call of window) or
\* switchToFirstSiblingTab taken with mainTabID initialized leaves mainTabID
\* as it is, also when the step is the late reply to a call made before the
\* initialization; the step in which switchTab or window goes on with the
\* tracker still uninitialized records as mainTabID the tab that is current
\* before the switch and makes the target the current tab.  (getTabIds and
\* getCurrentTabId only query the driver and are no steps of the tracker.)
C40_MainStableUnderSwitching ==
    [][/\ (tabReturn'.op \in Switches /\ Len(pendingInit') <= Len(pendingInit)
            /\ mainTabID # NullTab) =>
              mainTabID' = mainTabID
       /\ (tabReturn'.op \in {"switchTab", "window"} /\ Len(pendingInit') < Len(pendingInit)
            /\ mainTabID = NullTab) =>
              /\ mainTabID' = currentTab
              /\ mainTabID' # NullTab
              /\ currentTab' = Head(pendingInit).target
      ]_vars

\* switchTab on an initialized tracker left the main tab, now not current
C40_Witness ==
    /\ tabReturn.op = "switchTab"
    /\ tabReturn.was # NullTab
    /\ mainTabID = tabReturn.was
    /\ mainTabID \in Range(tabIds)
    /\ currentTab \in Range(tabIds)
    /\ currentTab # mainTabID

\* ---------------------------------------------------- deadline wait claims
DeadlineWaits == {"isBecomeHidden", "waitForNotVisible", "waitForAlert"}

\* C22: waitForNotVisible returns normally only after an evaluation found
\* the element not visible; when every evaluation found it visible (and the
\* root exists and the driver answered), it ends by throwing the error that
\* names the selector, after a loop test past the deadline.
C22_NotVisibleDeadline ==
    (poll.op = "waitForNotVisible" /\ poll.pc = "done") =>
        /\ poll.result.kind = "returned" => poll.seen
        /\ (~poll.seen /\ ~poll.rootFailed /\ poll.result.message # DriverError) =>
              /\ poll.result = PollThrew(StillVisibleError(Selector))
              /\ poll.testedAt > poll.expires

C22_Witness ==
    /\ poll.op = "waitForNotVisible"
    /\ poll.pc = "done"
    /\ poll.evals >= 2
    /\ ~poll.seen
    /\ poll.result = PollThrew(StillVisibleError(Selector))

\* C23: when the root existence wait rejects, waitForNotVisible ends with
\* the error RootPendingError, which differs from the deadline error, and no
\* visibility query was made.
C23_RootCheck ==
    /\ RootPendingError # StillVisibleError(Selector)
    /\ (poll.op = "waitForNotVisible" /\ poll.rootFailed) =>
          /\ poll.pc = "done"
          /\ poll.result = PollThrew(RootPendingError)
          /\ poll.evals = 0

C23_Witness ==
    /\ poll.op = "waitForNotVisible"
    /\ poll.rootFailed
    /\ poll.pc = "done"
    /\ poll.result = PollThrew(RootPendingError)
    /\ now > 0

\* C24: a deadline wait that has ended (the root existing) has evaluated
\* its predicate at least once, and at most once when its timeout is 0 or
\* negative.
C24_AtLeastOneEvaluation ==
    (poll.op \in DeadlineWaits /\ poll.pc = "done" /\ ~poll.rootFailed) =>
        /\ poll.evals >= 1
        /\ poll.timeout <= 0 => poll.evals <= 1

\* C25: isBecomeVisible and isBecomeHidden end with true exactly when the
\* awaited state was observed, with false only when it was not and (for
\* isBecomeHidden) the loop test found the deadline passed, and never by
\* throwing because of the deadline: only a failure of isVisible is thrown.
C25_BecomeSoft ==
    (poll.op \in {"isBecomeVisible", "isBecomeHidden"} /\ poll.pc = "done") =>
        /\ poll.result.kind \in {"returned", "threw"}
        /\ poll.result.kind = "threw" =>
              (poll.op = "isBecomeHidden" /\ poll.result.message = DriverError)
        /\ poll.seen <=> poll.result = PollReturned("true")
        /\ poll.result = PollReturned("false") =>
              (poll.op = "isBecomeHidden" => poll.testedAt > poll.expires)

C25_Witness ==
    /\ poll.op = "isBecomeHidden"
    /\ poll.pc = "done"
    /\ poll.evals >= 2
    /\ poll.timeout > 0
    /\ poll.result = PollReturned("false")

\* C29: in isBecomeHidden and waitForNotVisible an evaluation in flight
\* when the deadline passes is honoured, every evaluation after the first
\* begins at a loop test with now < deadline, and consecutive evaluations
\* are a tick apart.
C29_DeadlineNonPreemption ==
    poll.op \in {"isBecomeHidden", "waitForNotVisible"} =>
        /\ (poll.pc = "done" /\ poll.seen) => poll.result = SuccessResult(poll.op)
        /\ poll.evals >= 2 => poll.began < poll.expires
        /\ poll.paced

\* C30: every deadline wait that was called ends, given that the driver
\* answers and the timers fire; and each evaluation after the first begins
\* a tick or more after the one before it ended.
C30_PollTerminates ==
    /\ [](poll.op \in DeadlineWaits => poll.paced)
    /\ (poll.op \in DeadlineWaits /\ poll.pc # "idle") ~> (poll.pc = "done")

C30_Witness ==
    /\ poll.op = "waitForAlert"
    /\ poll.pc = "done"
    /\ poll.evals >= 2
    /\ poll.paced
    /\ poll.result = PollReturned("false")

\* C31: in waitForAlert a driver error of the alert query counts as not yet
\* satisfied: the step in which the query fails goes on to the pause with no
\* result, and the wait only ever ends by returning, true exactly when a query
\* found the alert.  In isBecomeHidden and waitForNotVisible the step in which
\* the visibility query fails ends the wait at once with the driver's error,
\* without a further evaluation or pause.
C31_PredicateErrorPolicy ==
    /\ []((poll.op = "waitForAlert" /\ poll.pc = "done") =>
            /\ poll.result.kind = "returned"
            /\ poll.result.value = (IF poll.seen THEN "true" ELSE "false"))
    /\ [][(poll.pc = "eval" /\ poll'.failed) =>
            IF poll.op = "waitForAlert"
            THEN poll'.pc = "pause" /\ poll'.result = NoPollResult
            ELSE /\ poll.op \in {"isBecomeHidden", "waitForNotVisible"}
                 /\ poll'.pc = "done"
                 /\ poll'.result = PollThrew(DriverError)
                 /\ poll'.evals = poll.evals]_vars

\* a waitForAlert whose query failed with a driver error went on polling
\* and gave up with false at the deadline
C31_Witness ==
    /\ poll.op = "waitForAlert" /\ poll.pc = "done"
    /\ poll.failed /\ poll.evals >= 2
    /\ poll.result = PollReturned("false")


\* -------------------------------------------- element operation claims
VisibilityWaits(calls) == { k \in DOMAIN calls : calls[k].name = "waitForVisible" }

\* C21: waitForVisible issues the driver's visibility wait only with the
\* timeout timeout - spent and only when that is positive; when the
\* existence wait succeeded and used up the whole timeout it throws the
\* timeout error and issues no visibility wait.
C21_TimeoutFloor ==
    lastOp.op = "waitForVisible" =>
        /\ \A k \in VisibilityWaits(lastOp.calls) :
              /\ lastOp.calls[k].arg > 0
              /\ lastOp.calls[k].arg = lastOp.timeout - lastOp.spent
        /\ (lastOp.in.exists = "ok" /\ lastOp.timeout - lastOp.spent <= 0) =>
              /\ VisibilityWaits(lastOp.calls) = {}
              /\ lastOp.result = OpThrew(VisibleTimeoutError(lastOp.timeout))

C21_Witness ==
    /\ lastOp.op = "waitForVisible"
    /\ lastOp.in.exists = "ok"
    /\ lastOp.timeout = TICK_TIMEOUT
    /\ lastOp.spent = lastOp.timeout
    /\ lastOp.result = OpThrew(VisibleTimeoutError(lastOp.timeout))

\* C26: an action ends as it would have ended had its screenshot succeeded.
C26_BestEffortScreenshot ==
    lastOp.op \in ActionOps =>
        lastOp.result =
            Action(lastOp.op, [lastOp.in EXCEPT !.shot = "ok"], lastOp.timeout,
                   screenshotsEnabled).result

\* C27: waitForExist returns the existence result whenever the driver's
\* existence wait succeeds, whatever the scroll and the pointer move do,
\* throws the driver's error whenever that wait rejects, and with
\* skipMoveToObject issues neither the scroll nor the pointer move.
C27_ExistFollowUp ==
    lastOp.op = "waitForExist" =>
        /\ lastOp.in.exists = "ok" => lastOp.result = OpReturned("exists")
        /\ lastOp.in.exists = "fail" => lastOp.result = OpThrew(ExistError)
        /\ lastOp.in.skipMove =>
              \A k \in DOMAIN lastOp.calls :
                  lastOp.calls[k].name \notin {"executeAsync", "moveToObject"}

C27_Witness ==
    /\ lastOp.op = "waitForExist"
    /\ lastOp.in.exists = "ok"
    /\ ~lastOp.in.skipMove
    /\ lastOp.in.scroll = "fail"
    /\ lastOp.result = OpReturned("exists")

\* C28: when openPage has settled because the page operation succeeded or
\* because the timer expired, its timer is not pending.
C28_TimerNotPending ==
    (page.pc = "done" /\ page.result \in {"returned", "threwTimeout"}) =>
        page.timer # "armed"

C28_Witness ==
    /\ page.pc = "done"
    /\ page.result = "returned"
    /\ page.timer = "cleared"

\* C38 (as claimed): when setValue with a value has resolved, the write of
\* the value has completed; when the write has failed, setValue has rejected;
\* and the screenshot it took was taken with the write completed; with the
\* driver's setValue and with JS emulation alike.
C38_SetValueCompletion ==
    valueWrite.pc = "done" =>
        /\ valueWrite.result = "returned" => valueWrite.write = "done"
        /\ valueWrite.write = "failed" => valueWrite.result = "threw"
        /\ valueWrite.shotAfterWrite

\* C39 (as claimed): when openPage has rejected with the error of the page
\* operation, its timer is cleared: it is neither pending nor does it fire.
C39_FailureClearsTimer ==
    page.result = "threwOperation" => page.timer = "cleared"

====
